---- MODULE Spec2Model ----
(***************************************************************************)
(* Model of citius_selenium_scraper.py: one run of main(), i.e. argument   *)
(* validation, browser session set-up, CitiusSeleniumScraper.search        *)
(* (open page, fill form, submit, extract_results, save_results) and the   *)
(* top-level fault handler.                                                *)
(*                                                                         *)
(* Texts are sequences of tokens.  A token is a piece of text that no      *)
(* regular expression of the program cuts in two: a label ("Tribunal:"),   *)
(* a blank (SP), a line break (NL), a colon, or a plain word.  Field names *)
(* are written without diacritics (Conteudo, Descricao, Observacao,        *)
(* Indice, Referencia, Especie).                                           *)
(***************************************************************************)
EXTENDS Integers, Sequences, FiniteSets, TLC

VARIABLES
    pc,          \* position of the run inside main / search / extract_results
    nif,         \* args.nif is set (truthy)
    designacao,  \* args.designacao is set (truthy)
    driver,      \* the session bound to self.driver: "none", "open" or "closed"
    orphans,     \* sessions created and then unbound without quit()
    stages,      \* pipeline stages of search that have run, in order
    invoked,     \* strategies of extract_results that have been entered, in order
    reported,    \* what the page said of the total: "unread", "fault", "none" or N
    total_docs,  \* extract_results: total_docs
    results,     \* extract_results: results / the list handed to save_results
    blob,        \* the text the text-block path last read (content / page_text)
    found,       \* len(rows) or len(result_items) of the running loop
    seen,        \* the rows or items the running loop has visited, in order
    todo,        \* rows or items still to be visited by the running loop
    expired,     \* time.time() - start_time > max_extraction_time has been seen
    csvFile,     \* contents of <base>.csv
    jsonFile,    \* contents of <base>.json
    csvRet,      \* what save_results_to_csv returned: "none" (not called), "True", "False"
    jsonRet,     \* what save_results_to_json returned
    writes,      \* the writes of output files that were attempted, in order
    debugFile,   \* debug_results_page.html has been written
    exitCode     \* what main returned (-1 while it runs)

vars == <<pc, nif, designacao, driver, orphans, stages, invoked, reported, total_docs,
          results, blob, found, seen, todo, expired, csvFile, jsonFile, csvRet, jsonRet,
          writes, debugFile, exitCode>>

----------------------------------------------------------------------------
(* Bounds of the model *)

MaxTotal == 3
MaxRows == 2
MaxItems == 2
MaxFragments == 2
MaxBatch == 2

----------------------------------------------------------------------------
(* Tokens and texts *)

SP == " "
NL == "\n"

Min(a, b) == IF a < b THEN a ELSE b

IsSpace(t) == t \in {SP, NL}

RECURSIVE LStrip(_)
LStrip(s) == IF s # <<>> /\ IsSpace(Head(s)) THEN LStrip(Tail(s)) ELSE s

RECURSIVE RStrip(_)
RStrip(s) ==
    IF s # <<>> /\ IsSpace(s[Len(s)]) THEN RStrip(SubSeq(s, 1, Len(s) - 1)) ELSE s

\* str.strip()
Strip(s) == RStrip(LStrip(s))

\* the words a token contains, for the tests `"Insolvente" in content`
WordsOf(t) ==
    CASE t = "Insolvente:" -> {"Insolvente"}
      [] t = "Credor:" -> {"Credor"}
      [] t = "Administrador" -> {"Administrador"}
      [] t = "Tribunal:" -> {"Tribunal"}
      [] t = "Processo:" -> {"Processo"}
      [] OTHER -> {}

\* `word in text`
Contains(word, text) == \E i \in DOMAIN text : word \in WordsOf(text[i])

\* the alternatives of the split pattern
BoundaryLabels == {"Tribunal:", "Processo:", "Insolvente:", "Credor:", "Administrador"}

RECURSIVE SplitFrom(_, _, _)
SplitFrom(s, i, cur) ==
    IF i > Len(s) THEN <<cur>>
    ELSE IF s[i] \in BoundaryLabels THEN <<cur>> \o SplitFrom(s, i + 1, <<>>)
    ELSE SplitFrom(s, i + 1, Append(cur, s[i]))

\* re.split(r'(?:Tribunal:|Processo:|Insolvente:|Credor:|Administrador)', text)
ReSplit(text) == SplitFrom(text, 1, <<>>)

\* block.strip().startswith(':')
StartsWithColon(block) == LET b == Strip(block) IN b # <<>> /\ b[1] = ":"

\* a rule that treats the first block like the others
PrefixIgnoresFirst(i, block, text) ==
    IF ~StartsWithColon(block) THEN <<"Tribunal:", SP>>
    ELSE IF Contains("Insolvente", text) THEN <<"Insolvente:", SP>>
    ELSE IF Contains("Credor", text) THEN <<"Credor:", SP>>
    ELSE IF Contains("Administrador", text) THEN <<"Administrador", ":", SP>>
    ELSE <<"Processo:", SP>>

\* the label put back in front of block number i (from 0) of the split
Prefix(i, block, text) ==
    IF i = 0 \/ ~StartsWithColon(block) THEN <<"Tribunal:", SP>>
    ELSE IF Contains("Insolvente", text) THEN <<"Insolvente:", SP>>
    ELSE IF Contains("Credor", text) THEN <<"Credor:", SP>>
    ELSE IF Contains("Administrador", text) THEN <<"Administrador", ":", SP>>
    ELSE <<"Processo:", SP>>

\* block_text.strip() of block number i
BlockText(i, block, text) == Strip(Prefix(i, block, text) \o block)

----------------------------------------------------------------------------
(* Values and records.  A record is a function from field names to values; *)
(* a value is a string, a list of strings or an integer.                   *)

StrV(s) == [t |-> "str", v |-> s]
LstV(l) == [t |-> "list", v |-> l]
IntV(n) == [t |-> "int", v |-> n]

EmptyRec == [f \in {} |-> StrV(<<>>)]

\* d[k] = v on a dict
Put(d, k, v) == [f \in DOMAIN d \cup {k} |-> IF f = k THEN v ELSE d[f]]

Rec1(k, v) == Put(EmptyRec, k, v)

\* a text-block path that makes a record of every block
TextBlocksUncapped(text, total) ==
    LET blocks == ReSplit(text) IN
    IF Len(blocks) > 1
    THEN LET rest == Tail(blocks) IN
         [k \in 1..Len(rest) |->
             Rec1("Conteudo", StrV(BlockText(k - 1, rest[k], text)))]
    ELSE <<Rec1("Conteudo", StrV(text))>>

\* a text-block path that keeps the block in front of the first label
TextBlocksKeepsHeader(text, total) ==
    LET blocks == ReSplit(text) IN
    IF Len(blocks) > 1
    THEN [k \in 1..Min(Len(blocks), total) |->
             Rec1("Conteudo", StrV(BlockText(k - 1, blocks[k], text)))]
    ELSE <<Rec1("Conteudo", StrV(text))>>

\* the records of the text-block path: the blocks after the first, at most
\* total of them, each with its label put back; or the whole text
TextBlocks(text, total) ==
    LET blocks == ReSplit(text) IN
    IF Len(blocks) > 1
    THEN LET rest == Tail(blocks) IN
         [k \in 1..Min(Len(rest), total) |->
             Rec1("Conteudo", StrV(BlockText(k - 1, rest[k], text)))]
    ELSE <<Rec1("Conteudo", StrV(text))>>

----------------------------------------------------------------------------
(* parse_content_to_structured_data *)

\* the patterns dict with the first capture stored under the wrong name
PatternsWrongName ==
    << <<"Conteudo", "Tribunal:">>,
       <<"Ato", "Ato:">>,
       <<"Referencia", "Referencia:">>,
       <<"Processo", "Processo:">>,
       <<"Especie", "Especie:">>,
       <<"Data", "Data:">>,
       <<"Data da propositura da acao", "Data da propositura da acao:">>,
       <<"Insolvente", "Insolvente:">>,
       <<"NIF/NIPC", "NIF/NIPC:">>,
       <<"Administrador Insolvencia", "Administrador Insolvencia:">> >>

\* the patterns dict, in its order: field name and the label its pattern starts with
Patterns ==
    << <<"Tribunal", "Tribunal:">>,
       <<"Ato", "Ato:">>,
       <<"Referencia", "Referencia:">>,
       <<"Processo", "Processo:">>,
       <<"Especie", "Especie:">>,
       <<"Data", "Data:">>,
       <<"Data da propositura da acao", "Data da propositura da acao:">>,
       <<"Insolvente", "Insolvente:">>,
       <<"NIF/NIPC", "NIF/NIPC:">>,
       <<"Administrador Insolvencia", "Administrador Insolvencia:">> >>

\* least index >= i of s that satisfies P, or Len(s) + 1
RECURSIVE SkipSpace(_, _)
SkipSpace(s, i) == IF i <= Len(s) /\ IsSpace(s[i]) THEN SkipSpace(s, i + 1) ELSE i

RECURSIVE LineEnd(_, _)
LineEnd(s, i) == IF i <= Len(s) /\ s[i] # NL THEN LineEnd(s, i + 1) ELSE i

RECURSIVE Find(_, _, _)
Find(s, label, i) ==
    IF i > Len(s) THEN 0 ELSE IF s[i] = label THEN i ELSE Find(s, label, i + 1)

\* `\s*(.*?)(?:\n|$)` matched right after position i: the group and the
\* position of the line break (or Len(s) + 1) that ends the match
Capture(s, i) ==
    LET from == SkipSpace(s, i + 1)
        to == LineEnd(s, from)
    IN [group |-> SubSeq(s, from, to - 1), end |-> to]

\* re.findall(r'Credor:\s*(.*?)(?:\n|$)', content) from position i on
RECURSIVE FindAllCredor(_, _)
FindAllCredor(s, i) ==
    LET at == Find(s, "Credor:", i) IN
    IF at = 0 THEN <<>>
    ELSE LET m == Capture(s, at) IN <<m.group>> \o FindAllCredor(s, m.end + 1)

\* re.findall(r'Credor:.*?\nNIF/NIPC:\s*(.*?)(?:\n|$)', content) from position i on
RECURSIVE FindAllNif(_, _)
FindAllNif(s, i) ==
    LET at == Find(s, "Credor:", i) IN
    IF at = 0 THEN <<>>
    ELSE LET nl == LineEnd(s, at + 1) IN
         IF nl + 1 <= Len(s) /\ s[nl + 1] = "NIF/NIPC:"
         THEN LET m == Capture(s, nl + 1) IN <<m.group>> \o FindAllNif(s, m.end + 1)
         ELSE FindAllNif(s, at + 1)

\* the loop over patterns.items(), from pattern number k on
RECURSIVE ApplyPatterns(_, _, _)
ApplyPatterns(content, k, result) ==
    IF k > Len(Patterns) THEN result
    ELSE LET at == Find(content, Patterns[k][2], 1) IN
         ApplyPatterns(content, k + 1,
            IF at = 0 THEN result
            ELSE Put(result, Patterns[k][1], StrV(Strip(Capture(content, at).group))))

parse_content_to_structured_data(content) ==
    LET fields == ApplyPatterns(content, 1, EmptyRec)
        credores == FindAllCredor(content, 1)
        nifs_credores == FindAllNif(content, 1)
        withCredores ==
            IF credores # <<>> THEN Put(fields, "Credores", LstV(credores)) ELSE fields
    IN IF nifs_credores # <<>>
       THEN Put(withCredores, "NIFs_Credores", LstV(nifs_credores))
       ELSE withCredores

\* a step that takes the fields of the text also when there is none
NormalizeRecordKeepsNoText(result) ==
    IF "Conteudo" \in DOMAIN result /\ Cardinality(DOMAIN result) <= 2
    THEN LET structured_data == parse_content_to_structured_data(result["Conteudo"].v) IN
         IF "Links" \in DOMAIN result
         THEN Put(structured_data, "Links", result["Links"])
         ELSE structured_data
    ELSE result

\* the step "Processar resultados para estruturar dados de texto" on one record
NormalizeRecord(result) ==
    IF "Conteudo" \in DOMAIN result /\ Cardinality(DOMAIN result) <= 2
    THEN LET structured_data == parse_content_to_structured_data(result["Conteudo"].v) IN
         IF DOMAIN structured_data # {}
         THEN IF "Links" \in DOMAIN result
              THEN Put(structured_data, "Links", result["Links"])
              ELSE structured_data
         ELSE result
    ELSE result

\* processed_results
ProcessResults(rs) == [k \in DOMAIN rs |-> NormalizeRecord(rs[k])]

----------------------------------------------------------------------------
(* What the page can show *)

\* fragments a results page can be made of
Fragments ==
    { <<"Tribunal:", SP, "A", NL>>,
      <<"Tribunal:", NL>>,
      <<"Credor:", SP, "A", NL, "Credor:", SP, "B", NL>>,
      <<"Credor:", SP, "B", NL>>,
      <<"NIF/NIPC:", SP, "B", NL>>,
      <<"Insolvente:", SP, "B", NL>>,
      <<"Administrador", ":", SP, "A", NL>>,
      <<"Processo:", SP, ":", "A", NL>>,
      <<"A", NL>> }

RECURSIVE TextsOf(_)
TextsOf(n) ==
    IF n = 0 THEN {<<>>}
    ELSE LET shorter == TextsOf(n - 1) IN
         shorter \cup {t \o l : t \in shorter, l \in Fragments}

\* the texts of a page body or of the results container
PageTexts == TextsOf(MaxFragments)

\* the texts of one item of the results list
ItemTexts ==
    { <<>>,
      <<SP, "Tribunal:", SP, "A", NL, "Credor:", SP, "B", NL>>,
      <<"Credor:", SP, "B", NL, "Credor:", SP, "A", NL, "Credor:", SP, "B", NL>> }

\* the href attributes of the links of a row or item: no link element, link
\* elements without href, one link
LinkSets ==
    { [found |-> FALSE, hrefs |-> <<>>],
      [found |-> TRUE, hrefs |-> <<>>],
      [found |-> TRUE, hrefs |-> << <<"http://doc">> >>] }

\* the cell texts of a table row
CellTexts == {<<"A">>, <<SP, "B", SP>>}

\* the named spans an item can hold
ItemFieldNames ==
    {"Tribunal", "Processo", "Data", "Ato", "Descricao", "Interveniente", "NIF/NIPC"}

\* the sets of named spans found in one item
ItemFieldSets == {{}, {"Tribunal"}, ItemFieldNames}

----------------------------------------------------------------------------
(* save_results_to_csv and save_results_to_json *)

\* sorted() on the field names the program uses
FieldOrder ==
    <<"Administrador Insolvencia", "Ato", "Conteudo", "Data",
      "Data da propositura da acao", "Data_Extracao", "Descricao", "Erro",
      "Especie", "Insolvente", "Interveniente", "NIF/NIPC", "Observacao",
      "Processo", "Referencia", "Total_Documentos", "Tribunal", "Indice">>

special_fields == <<"Links", "Credores", "NIFs_Credores">>

RECURSIVE Filter(_, _)
Filter(seq, set) ==
    IF seq = <<>> THEN <<>>
    ELSE (IF Head(seq) \in set THEN <<Head(seq)>> ELSE <<>>) \o Filter(Tail(seq), set)

AllFields(rs) == UNION {DOMAIN rs[k] : k \in DOMAIN rs}

\* a header with the three list columns put first
FieldnamesSpecialFirst(processed_results) ==
    Filter(special_fields, AllFields(processed_results))
        \o Filter(FieldOrder, AllFields(processed_results))

\* fieldnames of the DictWriter
Fieldnames(processed_results) ==
    Filter(FieldOrder, AllFields(processed_results))
        \o Filter(special_fields, AllFields(processed_results))

\* '; '.join(list)
RECURSIVE Join(_)
Join(l) ==
    IF l = <<>> THEN <<>>
    ELSE IF Len(l) = 1 THEN l[1]
    ELSE l[1] \o <<"; ">> \o Join(Tail(l))

\* the text the csv writer puts in a cell
CellOf(value) ==
    CASE value.t = "str" -> value.v
      [] value.t = "list" -> Join(value.v)
      [] value.t = "int" -> <<ToString(value.v)>>

\* the conversions "Converter lista de ... para string" on a row
JoinLists(row) ==
    [f \in DOMAIN row |->
        IF f \in {"Links", "Credores", "NIFs_Credores"} /\ row[f].t = "list"
        THEN StrV(Join(row[f].v))
        ELSE row[f]]

\* conversions made on the record itself
JoinInPlace(result) == [row |-> JoinLists(result), result |-> JoinLists(result)]

\* `row = result.copy()` and the conversions on row: the row that is
\* written, and the record as it is afterwards
CopyAndJoin(result) == [row |-> JoinLists(result), result |-> result]

\* writer.writerow(row) under the header fieldnames
CsvRow(result, fieldnames) ==
    LET row == CopyAndJoin(result).row IN
    [c \in DOMAIN fieldnames |->
        IF fieldnames[c] \in DOMAIN row THEN CellOf(row[fieldnames[c]]) ELSE <<>>]

NoFile == [kind |-> "none"]

NoResultsCsv ==
    [kind |-> "table", header |-> <<"Observacao">>,
     rows |-> << <<<<"Nenhum resultado encontrado">>>> >>]

\* the file of the complete CSV path
FullCsv(rs) ==
    IF rs = <<>> THEN NoResultsCsv
    ELSE LET processed_results == ProcessResults(rs)
             fieldnames == Fieldnames(processed_results)
         IN [kind |-> "table", header |-> fieldnames,
             rows |-> [k \in DOMAIN processed_results |->
                          CsvRow(processed_results[k], fieldnames)]]

\* the file of the simplified path: the failure and str(result) of every record
SimplifiedCsv(rs) == [kind |-> "simplified", dump |-> rs]

\* a dump that joins lists the way the CSV rows do
JsonDumpJoined(value) ==
    CASE value.t = "str" -> [j |-> "string", v |-> value.v]
      [] value.t = "list" -> [j |-> "string", v |-> Join(value.v)]
      [] value.t = "int" -> [j |-> "number", v |-> value.v]

\* what json.dump writes for a value, and what json.load reads back
JsonDump(value) ==
    CASE value.t = "str" -> [j |-> "string", v |-> value.v]
      [] value.t = "list" -> [j |-> "array", v |-> value.v]
      [] value.t = "int" -> [j |-> "number", v |-> value.v]

JsonLoad(json) ==
    CASE json.j = "string" -> StrV(json.v)
      [] json.j = "array" -> LstV(json.v)
      [] json.j = "number" -> IntV(json.v)

JsonObject(result) == [f \in DOMAIN result |-> JsonDump(result[f])]

LoadObject(obj) == [f \in DOMAIN obj |-> JsonLoad(obj[f])]

\* serializable_results
SerializableResults(processed_results) ==
    [k \in DOMAIN processed_results |-> JsonObject(processed_results[k])]

NoResultsJson ==
    [kind |-> "object",
     obj |-> JsonObject(Rec1("Observacao", StrV(<<"Nenhum resultado encontrado">>)))]

\* a complete JSON path without the branch for an empty list
FullJsonAlwaysArray(rs) ==
    [kind |-> "array", items |-> SerializableResults(ProcessResults(rs))]

\* the file of the complete JSON path
FullJson(rs) ==
    IF rs = <<>> THEN NoResultsJson
    ELSE [kind |-> "array", items |-> SerializableResults(ProcessResults(rs))]

SimplifiedJson(rs) == [kind |-> "simplified", dump |-> rs]

\* the outcomes of writing a file
WriteOutcomes == {"ok", "fail"}

\* a serializer that reports failure whenever the complete write failed
SerializeReportsFailure(full, simplified, first, second) ==
    IF first = "ok" THEN [file |-> full, ret |-> "True"]
    ELSE IF second = "ok" THEN [file |-> simplified, ret |-> "False"]
    ELSE [file |-> NoFile, ret |-> "False"]

\* a serializer: the complete write, and the simplified write when it fails;
\* a failed write leaves no usable file
Serialize(full, simplified, first, second) ==
    IF first = "ok" THEN [file |-> full, ret |-> "True"]
    ELSE IF second = "ok" THEN [file |-> simplified, ret |-> "True"]
    ELSE [file |-> NoFile, ret |-> "False"]

\* re.search raises in parse_content_to_structured_data when the Conteudo
\* of a record to rewrite is not a text
NormalizeRaises(rs) ==
    \E k \in DOMAIN rs :
        /\ "Conteudo" \in DOMAIN rs[k]
        /\ Cardinality(DOMAIN rs[k]) <= 2
        /\ rs[k]["Conteudo"].t # "str"

\* the outcome of the `try` of a serializer: the rewriting of the records
\* raises, or the file is written with the outcome first
CompletePath(rs, first) == IF NormalizeRaises(rs) THEN "fail" ELSE first

\* the writes a serializer attempts: the complete file unless the rewriting
\* raised before it, and the simplified file when the `try` failed
WritesOf(file, rs, first, second) ==
    (IF NormalizeRaises(rs) THEN <<>>
     ELSE <<[file |-> file, form |-> "complete", outcome |-> first]>>)
    \o (IF CompletePath(rs, first) = "fail"
        THEN <<[file |-> file, form |-> "simplified", outcome |-> second]>>
        ELSE <<>>)

\* the list handed to save_results_to_csv after the rows were written: a
\* record that was not rewritten is the object the row was copied from
AfterCsvRows(rs, first) ==
    IF rs # <<>> /\ CompletePath(rs, first) = "ok"
    THEN [k \in DOMAIN rs |->
            IF NormalizeRecord(rs[k]) = rs[k] THEN CopyAndJoin(rs[k]).result ELSE rs[k]]
    ELSE rs

save_results_to_csv(rs, first, second) ==
    Serialize(FullCsv(rs), SimplifiedCsv(rs), CompletePath(rs, first), second)

save_results_to_json(rs, first, second) ==
    Serialize(FullJson(rs), SimplifiedJson(rs), CompletePath(rs, first), second)

----------------------------------------------------------------------------
(* main, up to the call of search *)

Init ==
    /\ pc = "main"
    /\ nif \in BOOLEAN
    /\ designacao \in BOOLEAN
    /\ driver = "none"
    /\ orphans = 0
    /\ stages = <<>>
    /\ invoked = <<>>
    /\ reported = "unread"
    /\ total_docs = 0
    /\ results = <<>>
    /\ blob = <<>>
    /\ found = 0
    /\ seen = <<>>
    /\ todo = 0
    /\ expired = FALSE
    /\ csvFile = NoFile
    /\ jsonFile = NoFile
    /\ csvRet = "none"
    /\ jsonRet = "none"
    /\ writes = <<>>
    /\ debugFile = FALSE
    /\ exitCode = -1

\* the validation `if not nif and not designacao` of main and of search
Rejected(n, d) == ~n /\ ~d

\* main: "Validar argumentos"
MainValidate ==
    /\ pc = "main"
    /\ IF Rejected(nif, designacao)
       THEN pc' = "done" /\ exitCode' = 1
       ELSE pc' = "init" /\ UNCHANGED exitCode
    /\ UNCHANGED <<nif, designacao, blob, driver, orphans, stages, invoked, reported,
                   total_docs, results, found, seen, todo, expired, csvFile, jsonFile,
                   csvRet, jsonRet, debugFile, writes>>

\* what one attempt to start the browser does: webdriver.Chrome raises, the
\* session is created and implicitly_wait raises, or the session is ready
Attempts == {"raises", "created", "ready"}

\* CitiusSeleniumScraper.__init__ with the outcome of its first attempt and of
\* the alternative one: self.driver is bound by each webdriver.Chrome that
\* returns, the session it was bound to before is dropped as it is, and the
\* exception of a failed alternative attempt is raised
InitOutcome(first, second) ==
    IF first = "ready" THEN [driver |-> "open", orphans |-> 0, raised |-> FALSE]
    ELSE [driver |-> IF first = "created" \/ second # "raises" THEN "open" ELSE "none",
          orphans |-> IF first = "created" /\ second # "raises" THEN 1 ELSE 0,
          raised |-> second # "ready"]

\* main: `scraper = CitiusSeleniumScraper(...)`
DriverInit ==
    /\ pc = "init"
    /\ \E first \in Attempts, second \in Attempts :
         LET o == InitOutcome(first, second) IN
         /\ driver' = o.driver
         /\ orphans' = o.orphans
         /\ pc' = IF o.raised THEN "main_except" ELSE "search"
    /\ UNCHANGED <<nif, designacao, blob, stages, invoked, reported, total_docs,
                   results, found, seen, todo, expired, csvFile, jsonFile, csvRet,
                   jsonRet, debugFile, exitCode, writes>>

\* __del__: self.driver.quit() when the object has a driver
Quit(d) == IF d = "open" THEN "closed" ELSE d

\* the records main writes after a top-level fault
error_results ==
    << [f \in {"Erro", "Data_Extracao", "Observacao"} |->
          CASE f = "Erro" -> StrV(<<"str(e)">>)
            [] f = "Data_Extracao" -> StrV(<<"now">>)
            [] f = "Observacao" -> StrV(<<"Erro durante execucao do script">>)] >>

ErrorCsv ==
    LET fieldnames == <<"Erro", "Data_Extracao", "Observacao">> IN
    [kind |-> "table", header |-> fieldnames,
     rows |-> <<CsvRow(error_results[1], fieldnames)>>]

ErrorJson == [kind |-> "array", items |-> SerializableResults(error_results)]

\* main: `except Exception`, the error files (the JSON one only after the CSV
\* one was written), `return 1`; the object whose __init__ raised is
\* released with the exception, and `finally` finds no scraper bound
MainExcept ==
    /\ pc = "main_except"
    /\ \E first \in WriteOutcomes, second \in WriteOutcomes :
         /\ csvFile' = IF first = "ok" THEN ErrorCsv ELSE NoFile
         /\ jsonFile' = IF first = "ok" /\ second = "ok" THEN ErrorJson ELSE NoFile
         /\ writes' = writes
               \o <<[file |-> "csv", form |-> "error", outcome |-> first]>>
               \o (IF first = "ok"
                   THEN <<[file |-> "json", form |-> "error", outcome |-> second]>>
                   ELSE <<>>)
    /\ driver' = Quit(driver)
    /\ exitCode' = 1
    /\ pc' = "done"
    /\ UNCHANGED <<nif, designacao, blob, orphans, stages, invoked, reported,
                   total_docs, results, found, seen, todo, expired, csvRet, jsonRet,
                   debugFile>>

----------------------------------------------------------------------------
(* search, up to the call of extract_results *)

\* search: "Validar parametros"
SearchValidate ==
    /\ pc = "search"
    /\ pc' = IF Rejected(nif, designacao) THEN "search_ret" ELSE "open"
    /\ UNCHANGED <<nif, designacao, blob, driver, orphans, stages, invoked, reported,
                   total_docs, results, found, seen, todo, expired, csvFile, jsonFile,
                   csvRet, jsonRet, debugFile, exitCode, writes>>

\* a search that goes on to the extraction after a stage reported False
StageFailureSkipsToExtract(at, name, next) ==
    /\ pc = at
    /\ stages' = Append(stages, name)
    /\ \E ok \in BOOLEAN : pc' = IF ok THEN next ELSE "extract"
    /\ UNCHANGED <<nif, designacao, blob, driver, orphans, invoked, reported,
                   total_docs, results, found, seen, todo, expired, csvFile, jsonFile,
                   csvRet, jsonRet, debugFile, exitCode, writes>>

\* one of open_search_page, fill_search_form, submit_search: each catches its
\* own exceptions and reports True or False; on False search saves [] and returns
Stage(at, name, next) ==
    /\ pc = at
    /\ stages' = Append(stages, name)
    /\ \E ok \in BOOLEAN : pc' = IF ok THEN next ELSE "save_csv"
    /\ UNCHANGED <<nif, designacao, blob, driver, orphans, invoked, reported,
                   total_docs, results, found, seen, todo, expired, csvFile, jsonFile,
                   csvRet, jsonRet, debugFile, exitCode, writes>>

OpenSearchPage == Stage("open", "open", "fill")

FillSearchForm == Stage("fill", "fill", "submit")

SubmitSearch == Stage("submit", "submit", "extract")

----------------------------------------------------------------------------
(* extract_results *)

\* `if total_docs == 0: return results` with any strategy still to run
AfterCountNeverReturns(n) == "table"

\* `if total_docs == 0: return results`, else on to "Metodo 1"
AfterCount(n) == IF n = 0 THEN "save_csv" ELSE "table"

\* the "N documentos encontrados" message: a statement raises before the
\* total is set or after it (the outer handler takes over), there is no
\* message or no number in it, or the number N is read
ExtractStart ==
    /\ pc = "extract"
    /\ stages' = Append(stages, "extract")
    /\ \E count \in {"fault", "none"} \cup {ToString(n) : n \in 0..MaxTotal} :
         /\ reported' = count
         /\ \/ /\ count \in {"fault"}
               /\ pc' = "extract_except"
               /\ total_docs' \in 0..MaxTotal
            \/ /\ count = "none"
               /\ pc' = "table"
               /\ UNCHANGED total_docs
            \/ \E n \in 0..MaxTotal :
                 /\ count = ToString(n)
                 /\ total_docs' = n
                 /\ pc' = AfterCount(n)
    /\ UNCHANGED <<nif, designacao, blob, driver, orphans, invoked, results, found,
                   seen, todo, expired, csvFile, jsonFile, csvRet, jsonRet, debugFile,
                   exitCode, writes>>

\* "Metodo 1": the table lookup raises, finds no table, or finds len(rows) rows
TableLookup ==
    /\ pc = "table"
    /\ invoked' = Append(invoked, "table")
    /\ \E rows \in {-2, -1} \cup (0..(MaxRows + 1)) :
         IF rows > 1
         THEN found' = rows /\ todo' = rows - 1 /\ pc' = "table_row"
         ELSE found' = 0 /\ todo' = 0 /\ pc' = "list"
    /\ seen' = <<>>
    /\ UNCHANGED <<nif, designacao, blob, driver, orphans, stages, reported,
                   total_docs, results, expired, csvFile, jsonFile, csvRet, jsonRet,
                   debugFile, exitCode, writes>>

\* result['Links'] of a row or item whose link elements were found
WithLinks(result, links) ==
    IF links.found THEN Put(result, "Links", LstV(links.hrefs)) ELSE result

\* the record of a row with at least 5 cells
TableRecord(text, links) ==
    WithLinks([f \in {"Tribunal", "Processo", "Data", "Ato", "Descricao"} |->
                  StrV(Strip(text))], links)

\* what one row does: it goes stale, raises, has fewer than 5 cells, or is read
RowKinds ==
    {[kind |-> k, text |-> <<>>, links |-> [found |-> FALSE, hrefs |-> <<>>]] :
        k \in {"stale", "error", "short"}}
    \cup {[kind |-> "ok", text |-> t, links |-> l] : t \in CellTexts, l \in LinkSets}

\* a loop that loses what it has collected when a row fails
AfterRowAbortsOnFailure(rs, row) ==
    IF row.kind = "ok" THEN Append(rs, TableRecord(row.text, row.links)) ELSE <<>>

\* results after one row
AfterRow(rs, row) ==
    IF row.kind = "ok" THEN Append(rs, TableRecord(row.text, row.links)) ELSE rs

\* one turn of the loop over the rows: the deadline check, then the row
TableRow ==
    /\ pc = "table_row"
    /\ todo > 0
    /\ ~expired
    /\ \E timeout \in BOOLEAN, row \in RowKinds :
         IF timeout
         THEN expired' = TRUE /\ UNCHANGED <<results, seen, todo>>
         ELSE /\ results' = AfterRow(results, row)
              /\ seen' = Append(seen, row)
              /\ todo' = todo - 1
              /\ UNCHANGED expired
    /\ UNCHANGED <<pc, nif, designacao, blob, driver, orphans, stages, invoked,
                   reported, total_docs, found, csvFile, jsonFile, csvRet, jsonRet,
                   debugFile, exitCode, writes>>

\* a strategy that never returns what it found
AfterStrategyFallsThrough(rs, next) == next

\* where extract_results goes after a strategy: it returns what it
\* found, or goes on to the next strategy
AfterStrategy(rs, next) == IF Len(rs) > 0 THEN "save_csv" ELSE next

\* after the loop over the rows
TableEnd ==
    /\ pc = "table_row"
    /\ todo = 0 \/ expired
    /\ pc' = AfterStrategy(results, "list")
    /\ found' = 0
    /\ seen' = <<>>
    /\ todo' = 0
    /\ UNCHANGED <<nif, designacao, blob, driver, orphans, stages, invoked, reported,
                   total_docs, results, expired, csvFile, jsonFile, csvRet, jsonRet,
                   debugFile, exitCode, writes>>

\* "Metodo 2": the container lookup raises, finds no container, or finds it
\* with the items the three selectors give
ListLookup ==
    /\ pc = "list"
    /\ invoked' = Append(invoked, "list")
    /\ \E items \in {-2, -1} \cup (0..MaxItems) :
         /\ found' = IF items > 0 THEN items ELSE 0
         /\ todo' = IF items > 0 THEN items ELSE 0
         /\ pc' = IF items > 0 THEN "list_item"
                  ELSE IF items = 0 THEN "container"
                  ELSE "text"
    /\ seen' = <<>>
    /\ UNCHANGED <<nif, designacao, blob, driver, orphans, stages, reported,
                   total_docs, results, expired, csvFile, jsonFile, csvRet, jsonRet,
                   debugFile, exitCode, writes>>

\* what one item does: one of its elements goes stale, a lookup raises (and
\* then its text is read, or that raises too), or it is read
ItemKinds ==
    {[kind |-> k, fields |-> {}, links |-> [found |-> FALSE, hrefs |-> <<>>],
      text |-> t] : k \in {"stale", "error"}, t \in ItemTexts}
    \cup {[kind |-> "error_twice", fields |-> {},
           links |-> [found |-> FALSE, hrefs |-> <<>>], text |-> <<>>]}
    \cup {[kind |-> "ok", fields |-> f, links |-> l, text |-> t] :
            f \in ItemFieldSets, l \in LinkSets, t \in ItemTexts}

\* the record of an item that was read
ItemRecord(item) ==
    LET result == WithLinks([f \in item.fields |-> StrV(<<"A">>)], item.links)
        all_text == Strip(item.text)
    IN IF Cardinality(DOMAIN result) <= 1 /\ all_text # <<>>
       THEN Put(result, "Conteudo", StrV(all_text))
       ELSE result

\* results after one item
AfterItem(rs, item) ==
    CASE item.kind = "ok" ->
           IF DOMAIN ItemRecord(item) # {} THEN Append(rs, ItemRecord(item)) ELSE rs
      [] item.kind = "error" ->
           IF Strip(item.text) # <<>>
           THEN Append(rs, Rec1("Conteudo", StrV(Strip(item.text))))
           ELSE rs
      [] OTHER -> rs

\* one turn of the loop over the items: the deadline check, then the item
ListItem ==
    /\ pc = "list_item"
    /\ todo > 0
    /\ ~expired
    /\ \E timeout \in BOOLEAN, item \in ItemKinds :
         IF timeout
         THEN expired' = TRUE /\ UNCHANGED <<results, seen, todo>>
         ELSE /\ results' = AfterItem(results, item)
              /\ seen' = Append(seen, item)
              /\ todo' = todo - 1
              /\ UNCHANGED expired
    /\ UNCHANGED <<pc, nif, designacao, blob, driver, orphans, stages, invoked,
                   reported, total_docs, found, csvFile, jsonFile, csvRet, jsonRet,
                   debugFile, exitCode, writes>>

\* after the loop over the items
ListEnd ==
    /\ pc = "list_item"
    /\ todo = 0 \/ expired
    /\ pc' = AfterStrategy(results, "text")
    /\ found' = 0
    /\ seen' = <<>>
    /\ todo' = 0
    /\ UNCHANGED <<nif, designacao, blob, driver, orphans, stages, invoked, reported,
                   total_docs, results, expired, csvFile, jsonFile, csvRet, jsonRet,
                   debugFile, exitCode, writes>>

\* a container whose text is read and dropped
AfterContainerDropsText(rs, content, total) == rs

\* results after the text of the results container was read
AfterContainer(rs, content, total) ==
    IF content # <<>> THEN rs \o TextBlocks(content, total) ELSE rs

\* the container without items: reading its text raises, or gives content
ContainerText ==
    /\ pc = "container"
    /\ invoked' = Append(invoked, "container_text")
    /\ \/ /\ pc' = "text"
          /\ UNCHANGED <<results, blob>>
       \/ \E text \in PageTexts :
            /\ blob' = Strip(text)
            /\ results' = AfterContainer(results, blob', total_docs)
            /\ pc' = AfterStrategy(results', "text")
    /\ UNCHANGED <<nif, designacao, driver, orphans, stages, reported, total_docs,
                   found, seen, todo, expired, csvFile, jsonFile, csvRet, jsonRet,
                   debugFile, exitCode, writes>>

\* the record appended when the page text cannot be read
TextErrorRecord ==
    [f \in {"Erro", "Observacao"} |->
        IF f = "Erro" THEN StrV(<<"str(e)">>)
        ELSE StrV(<<"Falha na extracao de resultados, mas foram encontrados documentos">>)]

\* a condition that does not look at the total
TextConditionAnyTotal(rs, total) == Len(rs) = 0

\* "Metodo 3" is entered under this condition
TextCondition(rs, total) == Len(rs) = 0 /\ total > 0

\* a handler that appends nothing
AfterTextFaultSilent(rs) == rs

\* the `except` of "Metodo 3": "Ultimo recurso"
AfterTextFault(rs) == IF Len(rs) = 0 THEN Append(rs, TextErrorRecord) ELSE rs

\* "Metodo 3": the print before the `try` raises (the outer handler takes
\* over), writing the debug file or reading the body raises, or the body
\* text goes through the blocks
PageText ==
    /\ pc = "text"
    /\ IF TextCondition(results, total_docs)
       THEN /\ invoked' = Append(invoked, "text")
            /\ \/ /\ pc' = "extract_except"
                  /\ UNCHANGED <<results, blob, debugFile>>
               \/ /\ results' = AfterTextFault(results)
                  /\ UNCHANGED blob
                  /\ debugFile' \in BOOLEAN
                  /\ pc' = "placeholder"
               \/ \E text \in PageTexts :
                    /\ blob' = text
                    /\ results' = results \o TextBlocks(text, total_docs)
                    /\ debugFile' = TRUE
                    /\ pc' = "placeholder"
       ELSE pc' = "placeholder" /\ UNCHANGED <<invoked, results, blob, debugFile>>
    /\ UNCHANGED <<nif, designacao, driver, orphans, stages, reported, total_docs,
                   found, seen, todo, expired, csvFile, jsonFile, csvRet, jsonRet,
                   exitCode, writes>>

\* the generic records, one per document found
PlaceholderRecords(total) ==
    [k \in 1..total |->
        [f \in {"Indice", "Total_Documentos", "Observacao"} |->
            CASE f = "Indice" -> IntV(k)
              [] f = "Total_Documentos" -> IntV(total)
              [] f = "Observacao" ->
                   StrV(<<"Documento detectado mas nao foi possivel extrair detalhes">>)]]

\* a condition that does not look at the total
PlaceholderConditionAnyTotal(rs, total) == Len(rs) = 0

\* the generic records are made under this condition
PlaceholderCondition(rs, total) == Len(rs) = 0 /\ total > 0

\* "Verificar se temos pelo menos um resultado", and `return results`
Placeholder ==
    /\ pc = "placeholder"
    /\ IF PlaceholderCondition(results, total_docs)
       THEN /\ invoked' = Append(invoked, "placeholder")
            /\ results' = results \o PlaceholderRecords(total_docs)
       ELSE UNCHANGED <<invoked, results>>
    /\ pc' = "save_csv"
    /\ UNCHANGED <<nif, designacao, blob, driver, orphans, stages, reported,
                   total_docs, found, seen, todo, expired, csvFile, jsonFile, csvRet,
                   jsonRet, debugFile, exitCode, writes>>

\* the record of the outer handler
OuterErrorRecord(total) ==
    [f \in {"Total_Documentos", "Data_Extracao", "Erro", "Observacao"} |->
        CASE f = "Total_Documentos" -> IntV(total)
          [] f = "Data_Extracao" -> StrV(<<"now">>)
          [] f = "Erro" -> StrV(<<"str(e)">>)
          [] f = "Observacao" ->
               StrV(<<"Erro durante extracao, mas foram encontrados documentos">>)]

\* a handler that appends its record whatever the total
AfterFaultAlwaysRecord(rs, total) ==
    IF Len(rs) = 0 THEN Append(rs, OuterErrorRecord(total)) ELSE rs

\* "Garantir que retornamos algo mesmo em caso de erro"
AfterFault(rs, total) ==
    IF total > 0 /\ Len(rs) = 0 THEN Append(rs, OuterErrorRecord(total)) ELSE rs

\* the outer `except Exception` of extract_results, and `return results`
ExtractExcept ==
    /\ pc = "extract_except"
    /\ results' = AfterFault(results, total_docs)
    /\ pc' = "save_csv"
    /\ UNCHANGED <<nif, designacao, blob, driver, orphans, stages, invoked, reported,
                   total_docs, found, seen, todo, expired, csvFile, jsonFile, csvRet,
                   jsonRet, writes, debugFile, exitCode>>

----------------------------------------------------------------------------
(* save_results, and the end of search and main *)

\* save_results: "Salvar em CSV"
SaveCsv ==
    /\ pc = "save_csv"
    /\ stages' = Append(stages, "save")
    /\ \E first \in WriteOutcomes, second \in WriteOutcomes :
         LET r == save_results_to_csv(results, first, second) IN
         /\ csvFile' = r.file
         /\ csvRet' = r.ret
         /\ results' = AfterCsvRows(results, first)
         /\ writes' = writes \o WritesOf("csv", results, first, second)
    /\ pc' = "save_json"
    /\ UNCHANGED <<nif, designacao, blob, driver, orphans, invoked, reported,
                   total_docs, found, seen, todo, expired, jsonFile, jsonRet,
                   debugFile, exitCode>>

\* save_results: "Salvar em JSON"
SaveJson ==
    /\ pc = "save_json"
    /\ \E first \in WriteOutcomes, second \in WriteOutcomes :
         LET r == save_results_to_json(results, first, second) IN
         /\ jsonFile' = r.file
         /\ jsonRet' = r.ret
         /\ writes' = writes \o WritesOf("json", results, first, second)
    /\ pc' = "search_ret"
    /\ UNCHANGED <<nif, designacao, blob, driver, orphans, stages, invoked, reported,
                   total_docs, results, found, seen, todo, expired, csvFile, csvRet,
                   debugFile, exitCode>>

\* main: `return 0`, and `finally: del scraper`, which closes the session
MainReturn ==
    /\ pc = "search_ret"
    /\ exitCode' = 0
    /\ driver' = Quit(driver)
    /\ pc' = "done"
    /\ UNCHANGED <<nif, designacao, blob, orphans, stages, invoked, reported,
                   total_docs, results, found, seen, todo, expired, csvFile, jsonFile,
                   csvRet, jsonRet, debugFile, writes>>

Next ==
    \/ MainValidate
    \/ DriverInit
    \/ MainExcept
    \/ SearchValidate
    \/ OpenSearchPage
    \/ FillSearchForm
    \/ SubmitSearch
    \/ ExtractStart
    \/ TableLookup
    \/ TableRow
    \/ TableEnd
    \/ ListLookup
    \/ ListItem
    \/ ListEnd
    \/ ContainerText
    \/ PageText
    \/ Placeholder
    \/ ExtractExcept
    \/ SaveCsv
    \/ SaveJson
    \/ MainReturn

Spec == Init /\ [][Next]_vars

----------------------------------------------------------------------------
(* save_results called on a list of records of the caller's *)

\* records a caller can hand to save_results: named fields, a text that
\* gives fields, a text that gives none, a Conteudo that is not a text, and
\* a text with its links
DirectRecords ==
    { Rec1("Tribunal", StrV(<<"A">>)),
      Rec1("Conteudo", StrV(<<"Tribunal:", SP, "A", NL, "Credor:", SP, "B", NL>>)),
      Rec1("Conteudo", StrV(<<"A">>)),
      Rec1("Conteudo", IntV(0)),
      Put(Rec1("Conteudo", StrV(<<"Credor:", SP, "B", NL, "Credor:", SP, "B", NL>>)),
          "Links", LstV(<< <<"http://a">>, <<"http://b">> >>)),
      Put(Rec1("Tribunal", StrV(<<"B">>)),
          "Links", LstV(<< <<"http://a">>, <<"http://b">> >>)) }

\* the lists of at most n of these records
RECURSIVE Batches(_)
Batches(n) ==
    IF n = 0 THEN {<<>>}
    ELSE LET shorter == Batches(n - 1) IN
         shorter \cup {Append(b, r) : b \in shorter, r \in DirectRecords}

\* the scraper exists and save_results is about to run on the list
InitSave ==
    /\ pc = "save_csv"
    /\ nif = TRUE
    /\ designacao = FALSE
    /\ driver = "open"
    /\ orphans = 0
    /\ stages = <<>>
    /\ invoked = <<>>
    /\ reported = "unread"
    /\ total_docs = 0
    /\ results \in Batches(MaxBatch)
    /\ blob = <<>>
    /\ found = 0
    /\ seen = <<>>
    /\ todo = 0
    /\ expired = FALSE
    /\ csvFile = NoFile
    /\ jsonFile = NoFile
    /\ csvRet = "none"
    /\ jsonRet = "none"
    /\ writes = <<>>
    /\ debugFile = FALSE
    /\ exitCode = -1

NextSave ==
    \/ SaveCsv
    \/ SaveJson

SpecSave == InitSave /\ [][NextSave]_vars

----------------------------------------------------------------------------
(* Properties *)

Has(seq, x) == \E i \in DOMAIN seq : seq[i] = x

\* save_results has run and search has returned
SearchReturned == pc \in {"search_ret", "done"} /\ Has(stages, "save")

\* extract_results has run and returned results
ExtractReturned ==
    Has(stages, "extract") /\ pc \in {"save_csv", "save_json", "search_ret", "done"}

\* what json.load reads back from an array file
LoadedRecords == [k \in DOMAIN jsonFile.items |-> LoadObject(jsonFile.items[k])]

\* C1 (as claimed): a pipeline stage runs only when exactly one of nif and
\* designacao is set; with both set, or with neither, validation fails
\* before the session is created and before any stage runs.
C1_ExactlyOneCriterion ==
    (driver # "none" \/ stages # <<>>) => (nif /\ ~designacao) \/ (~nif /\ designacao)

\* C2: when the page reports a total of 0, extract_results returns an
\* empty list, no strategy has been entered and no placeholder was made.
C2_ZeroTotalShortCircuits ==
    reported = "0" => results = <<>> /\ invoked = <<>> /\ ~debugFile

C2_Witness == reported = "0" /\ pc = "done" /\ Has(stages, "extract")

\* the order in which the strategies may be entered
StrategyRank(name) ==
    CASE name = "table" -> 1
      [] name = "list" -> 2
      [] name = "container_text" -> 3
      [] name = "text" -> 4
      [] name = "placeholder" -> 5

\* C3: the strategies are entered in the order table, list, text,
\* placeholder, each at most once, and once a strategy has produced a
\* record no other strategy is entered: after a table that gave a record,
\* neither the list nor the page text nor the placeholders are tried.
C3_FirstNonEmptyWins ==
    [][ /\ results # <<>> => invoked' = invoked
        /\ \A i, j \in DOMAIN invoked' :
             i < j => StrategyRank(invoked'[i]) < StrategyRank(invoked'[j])
        /\ invoked' # <<>> => invoked'[1] = "table" ]_vars

C3_Witness ==
    pc = "done" /\ invoked = <<"table">> /\ Len(results) >= 1 /\ total_docs > 0

\* C4 (as claimed): every run ends with both <base>.csv and <base>.json
\* written.
C4_BothFilesAtEnd == pc = "done" => csvFile.kind # "none" /\ jsonFile.kind # "none"

\* a record no strategy could read anything from: the error record of the
\* page-text strategy, or a text in which no field and no creditor is found
Unread(result) ==
    \/ "Erro" \in DOMAIN result
    \/ /\ DOMAIN result = {"Conteudo"}
       /\ DOMAIN parse_content_to_structured_data(result["Conteudo"].v) = {}

\* C5 (as claimed): when the total N is greater than 0 and neither the
\* table nor the list nor the page text gave a record that could be read,
\* extract_results returns N placeholder records, record i with ordinal i
\* and Total_Documentos = N.
C5_PlaceholdersWhenNothingRead ==
    ( /\ ExtractReturned
      /\ total_docs > 0
      /\ Has(invoked, "text")
      /\ \A k \in DOMAIN results : Unread(results[k]) )
    => /\ Len(results) = total_docs
       /\ \A k \in DOMAIN results :
            /\ {"Indice", "Total_Documentos"} \subseteq DOMAIN results[k]
            /\ results[k]["Indice"] = IntV(k)
            /\ results[k]["Total_Documentos"] = IntV(total_docs)

\* "Tribunal: A\nCredor: A\nCredor: B\n"
TribunalAndCreditors ==
    <<"Tribunal:", SP, "A", NL, "Credor:", SP, "A", NL, "Credor:", SP, "B", NL>>

\* C6 (as claimed): the text of one "Tribunal:" line followed by two
\* "Credor:" lines is exported as exactly one record, with the tribunal
\* and the ordered list of both creditors.
C6_OneRecordWithCreditors ==
    ( /\ SearchReturned
      /\ Has(invoked, "text")
      /\ blob = TribunalAndCreditors
      /\ jsonFile.kind = "array" )
    => /\ Len(LoadedRecords) = 1
       /\ {"Tribunal", "Credores"} \subseteq DOMAIN LoadedRecords[1]
       /\ LoadedRecords[1]["Tribunal"] = StrV(<<"A">>)
       /\ LoadedRecords[1]["Credores"] = LstV(<< <<"A">>, <<"B">> >>)

\* C7: for an empty list, a CSV write that succeeds leaves the single
\* column Observacao with the one row "Nenhum resultado encontrado", a
\* JSON write that succeeds leaves the object with that one member (not an
\* array), and each reports success.
C7_EmptyListFiles ==
    (SearchReturned /\ results = <<>>) =>
        /\ csvFile.kind \notin {"simplified", "none"} =>
             /\ csvFile.kind = "table"
             /\ csvFile.header = <<"Observacao">>
             /\ csvFile.rows = << <<<<"Nenhum resultado encontrado">>>> >>
             /\ csvRet = "True"
        /\ jsonFile.kind \notin {"simplified", "none"} =>
             /\ jsonFile.kind = "object"
             /\ DOMAIN jsonFile.obj = {"Observacao"}
             /\ JsonLoad(jsonFile.obj["Observacao"])
                  = StrV(<<"Nenhum resultado encontrado">>)
             /\ jsonRet = "True"

C7_Witness ==
    /\ pc = "done"
    /\ Has(stages, "extract")
    /\ results = <<>>
    /\ csvFile.kind = "table"
    /\ jsonFile.kind = "object"

\* the complete file or the simplified report of one serializer
Degrades(file, ret, rs) ==
    /\ ret \in {"True", "False"}
    /\ ret = "False" <=> file.kind = "none"
    /\ file.kind \in {"none", "simplified", "table", "object", "array"}
    /\ file.kind = "simplified" => file.dump = rs

\* C8: save_results always comes back with an answer of each serializer:
\* a serializer whose complete write failed has left the simplified report
\* with every record and answers True, it answers False only when no file
\* could be written, and the JSON serializer is tried whatever the CSV one
\* did.
C8_SerializersDegrade ==
    /\ SearchReturned =>
         /\ Degrades(csvFile, csvRet, results)
         /\ Degrades(jsonFile, jsonRet, results)
    /\ pc = "save_json" => Degrades(csvFile, csvRet, results) /\ jsonRet = "none"

C8_Witness ==
    /\ pc = "done"
    /\ results # <<>>
    /\ csvRet = "False"
    /\ jsonRet = "True"
    /\ jsonFile.kind = "simplified"

Replaced(result) ==
    /\ "Conteudo" \in DOMAIN result
    /\ Cardinality(DOMAIN result) <= 2
    /\ DOMAIN parse_content_to_structured_data(result["Conteudo"].v) # {}

C10_NormalizeIdempotent ==
    \A k \in DOMAIN results :
        NormalizeRecord(NormalizeRecord(results[k])) = NormalizeRecord(results[k])

C10_Witness ==
    /\ pc = "done"
    /\ \E k \in DOMAIN results :
         /\ Replaced(results[k])
         /\ "Links" \in DOMAIN results[k]
         /\ NormalizeRecord(results[k]) # results[k]

\* position of a field name in sorted order
RECURSIVE SortIndex(_, _)
SortIndex(name, i) ==
    IF i > Len(FieldOrder) THEN 0
    ELSE IF FieldOrder[i] = name THEN i ELSE SortIndex(name, i + 1)

\* the three list columns, which come last and in this order
SpecialRank(name) ==
    CASE name = "Links" -> 1
      [] name = "Credores" -> 2
      [] name = "NIFs_Credores" -> 3
      [] OTHER -> 0

\* the CSV file is the table of the records recs: the header holds each
\* field name once, the names other than the three list columns sorted and
\* first, then the list columns that some record uses; row k is record k,
\* a list joined by "; " and a missing field blank
CsvIsTableOf(recs) ==
    LET header == csvFile.header IN
    /\ {header[c] : c \in DOMAIN header} = AllFields(recs)
    /\ \A c, d \in DOMAIN header :
         c < d =>
            /\ header[c] # header[d]
            /\ SpecialRank(header[c]) = 0 /\ SpecialRank(header[d]) = 0
                 => SortIndex(header[c], 1) < SortIndex(header[d], 1)
            /\ SpecialRank(header[c]) > 0
                 => SpecialRank(header[c]) < SpecialRank(header[d])
    /\ Len(csvFile.rows) = Len(recs)
    /\ \A k \in DOMAIN recs :
         /\ Len(csvFile.rows[k]) = Len(header)
         /\ \A c \in DOMAIN header :
              csvFile.rows[k][c] =
                 IF header[c] \notin DOMAIN recs[k] THEN <<>>
                 ELSE LET value == recs[k][header[c]] IN
                      CASE value.t = "list" -> Join(value.v)
                        [] value.t = "int" -> <<ToString(value.v)>>
                        [] OTHER -> value.v
    /\ (\A k \in DOMAIN recs :
            DOMAIN recs[k] = {"Tribunal", "Processo", "Data", "Ato", "Descricao"})
         => header = <<"Ato", "Data", "Descricao", "Processo", "Tribunal">>

\* the complete CSV file of a non-empty list was written
CsvWritten == SearchReturned /\ results # <<>> /\ csvFile.kind = "table"

\* C11 (as claimed): for a non-empty list, the CSV header is the sorted
\* union of the field names of the records handed in, without Links,
\* Credores and NIFs_Credores, followed by those of the three that a record
\* uses; there is one row per record, in order, lists joined by "; " and
\* missing fields blank; records with the five table fields and no links
\* give exactly those five columns, sorted.
C11_CsvOfInput == CsvWritten => CsvIsTableOf(results)

\* C11 (amended): the same, of the records after the serializer has
\* replaced every record with Conteudo and at most two fields, whose text
\* gives a field or a creditor, by the fields of that text and its Links.
C11_CsvOfNormalized == CsvWritten => CsvIsTableOf(ProcessResults(results))

C11_Witness ==
    /\ CsvWritten
    /\ Len(results) = 2
    /\ Len(csvFile.header) = 9
    /\ csvFile.header[8] = "Links"
    /\ csvFile.header[9] = "Credores"
    /\ Replaced(results[2])
    /\ csvFile.rows[2][1] = <<>>
    /\ csvFile.rows[1][8] = <<"http://doc">>

\* C12 (as claimed): when main returns, every session that was created has
\* been closed, on every path: after a session set-up that failed, after a
\* stage or a serializer that failed, and after a complete run.
C12_SessionsClosed == pc = "done" => driver # "open" /\ orphans = 0

\* the step enters the strategy name
Enters(name) == ~Has(invoked, name) /\ Has(invoked', name)

\* C13: the list strategy is entered only after the table strategy, and
\* only with no record; the text of the container is read only when no
\* selector found an item, its blocks (or the text itself) become the
\* records, and when that gives a record extract_results returns it: the
\* page text and the placeholders are not entered.
C13_ListAfterEmptyTable ==
    [][ /\ Enters("list") => Has(invoked, "table") /\ results = <<>>
        /\ Enters("container_text") =>
              /\ Has(invoked, "list")
              /\ found = 0 /\ seen = <<>>
              /\ results = <<>>
              /\ results' = IF blob' # <<>> THEN TextBlocks(blob', total_docs) ELSE <<>>
              /\ results' # <<>> => pc' = "save_csv"
        /\ (Has(invoked, "container_text") /\ results # <<>>) =>
              ~Enters("text") /\ ~Enters("placeholder") /\ results' = results ]_vars

C13_Witness ==
    /\ pc = "done"
    /\ invoked = <<"table", "list", "container_text">>
    /\ Len(results) = 2
    /\ blob # <<>>

\* C14: the page text strategy is entered, and debug_results_page.html
\* written, only from the point after the table and the list strategies,
\* with no record and a total greater than 0; and from that point it is
\* entered whenever there is no record and the total is greater than 0.
C14_TextIffEmptyAndTotal ==
    [][ /\ Enters("text") =>
              /\ Has(invoked, "table") /\ Has(invoked, "list")
              /\ results = <<>> /\ total_docs > 0
        /\ (pc = "text" /\ results = <<>> /\ total_docs > 0) => Enters("text")
        /\ (debugFile' /\ ~debugFile) => Enters("text") ]_vars

C14_Witness ==
    /\ pc = "done"
    /\ Has(invoked, "text")
    /\ debugFile
    /\ total_docs = 1
    /\ Len(results) = 1

\* C15 (as claimed): once the deadline, measured from the start of
\* extract_results and checked before each row or item, is found exceeded,
\* no further row or item is read and no further strategy is entered: the
\* records collected so far are what extract_results returns, also when
\* there is none.
C15_DeadlineReturnsPartial ==
    [][ expired => results' = results /\ invoked' = invoked ]_vars

\* the records of the rows that were read, in row order: the five cell
\* texts, stripped, and the links of the row when it has link elements
RECURSIVE RecordsOfRows(_)
RecordsOfRows(rows) ==
    IF rows = <<>> THEN <<>>
    ELSE LET row == Head(rows)
             cells == [f \in {"Tribunal", "Processo", "Data", "Ato", "Descricao"} |->
                          StrV(Strip(row.text))]
         IN (IF row.kind # "ok" THEN <<>>
             ELSE IF row.links.found
             THEN <<Put(cells, "Links", LstV(row.links.hrefs))>>
             ELSE <<cells>>) \o RecordsOfRows(Tail(rows))

\* C16: in the table strategy a row that goes stale, raises or has fewer
\* than 5 cells adds no record and every other row that is visited adds
\* exactly one: the records are those of the rows that did not fail, in
\* row order; the first row (the header) is never visited, and without a
\* timeout every other row is.
C16_FailingRowsSkipped ==
    pc = "table_row" =>
        /\ results = RecordsOfRows(seen)
        /\ Len(seen) + todo = found - 1

C16_Witness ==
    /\ pc = "table_row"
    /\ todo = 0
    /\ ~expired
    /\ found = 3
    /\ seen[1].kind = "ok"
    /\ seen[2].kind = "stale"
    /\ Len(results) = 1

\* the item the list loop has just visited
LastItem == seen[Len(seen)]

\* C17 (as claimed): in the list strategy an item that fails, by an
\* exception or by staleness, and whose text is not empty adds the record
\* holding that text under Conteudo, and the loop goes on with the next
\* item.
C17_FailedItemKeepsText ==
    (pc = "list_item" /\ seen # <<>> /\ LastItem.kind \in {"stale", "error"}
        /\ Strip(LastItem.text) # <<>>)
    => /\ results # <<>>
       /\ results[Len(results)] = Rec1("Conteudo", StrV(Strip(LastItem.text)))
       /\ Len(seen) + todo = found

\* C18 (as claimed): the record of an item that was read has Conteudo,
\* with the text of the item, when none of the 7 named fields was found in
\* it, and has no Conteudo when at least one was found.
C18_ContentOnlyWithoutFields ==
    (pc = "list_item" /\ seen # <<>> /\ LastItem.kind = "ok"
        /\ Strip(LastItem.text) # <<>>)
    => /\ results # <<>>
       /\ "Conteudo" \in DOMAIN results[Len(results)] <=> LastItem.fields = {}
       /\ LastItem.fields = {} =>
            results[Len(results)]["Conteudo"] = StrV(Strip(LastItem.text))

\* extract_results has returned from a text path (the container text or the
\* page text) whose text was cut in more than one block
SplitTextReturned ==
    /\ ExtractReturned
    /\ invoked # <<>>
    /\ invoked[Len(invoked)] \in {"container_text", "text"}
    /\ Len(ReSplit(blob)) > 1

\* the blocks that are kept: all but the first
KeptBlocks == Tail(ReSplit(blob))

\* the label of kept block k (from 1) by the rule of precedence
LabelOf(k) ==
    LET rest == LStrip(KeptBlocks[k]) IN
    CASE k = 1 \/ rest = <<>> \/ rest[1] # ":" -> <<"Tribunal:", SP>>
      [] OTHER ->
           CASE Contains("Insolvente", blob) -> <<"Insolvente:", SP>>
             [] ~Contains("Insolvente", blob) /\ Contains("Credor", blob)
                  -> <<"Credor:", SP>>
             [] ~Contains("Insolvente", blob) /\ ~Contains("Credor", blob)
                  /\ Contains("Administrador", blob) -> <<"Administrador", ":", SP>>
             [] OTHER -> <<"Processo:", SP>>

C20_CappedByTotal ==
    SplitTextReturned =>
        /\ Len(results) = Min(Len(KeptBlocks), total_docs)
        /\ Len(results) <= total_docs
        /\ \A k \in DOMAIN results :
             results[k]["Conteudo"] = StrV(BlockText(k - 1, KeptBlocks[k], blob))

C20_Witness ==
    /\ SplitTextReturned
    /\ Len(KeptBlocks) = 4
    /\ total_docs = 2
    /\ Len(results) = 2

\* extract_results has returned from a text path whose text was read and
\* was not cut: no boundary label matched in it
WholeTextReturned ==
    /\ ExtractReturned
    /\ invoked # <<>>
    /\ \/ invoked[Len(invoked)] = "container_text" /\ blob # <<>>
       \/ /\ invoked[Len(invoked)] = "text"
          /\ results # <<>>
          /\ "Erro" \notin DOMAIN results[1]
    /\ Len(ReSplit(blob)) = 1

\* no field pattern matches the text and no creditor is found in it
Opaque(text) == DOMAIN parse_content_to_structured_data(text) = {}

\* C21: a text in which no boundary label matches gives exactly one
\* record, holding the whole text under Conteudo; when no field pattern
\* matches the text, the record is exported as it is: one row under the
\* single column Conteudo in the CSV file, one object with the member
\* Conteudo in the JSON file.
C21_WholeTextKept ==
    WholeTextReturned =>
        /\ results = <<Rec1("Conteudo", StrV(blob))>>
        /\ (Opaque(blob) /\ csvFile.kind = "table") =>
              csvFile.header = <<"Conteudo">> /\ csvFile.rows = <<<<blob>>>>
        /\ (Opaque(blob) /\ jsonFile.kind = "array") =>
              LoadedRecords = <<Rec1("Conteudo", StrV(blob))>>

C21_Witness ==
    /\ WholeTextReturned
    /\ pc = "done"
    /\ blob = <<"A", NL, "A", NL>>
    /\ csvFile.kind = "table"
    /\ jsonFile.kind = "array"

\* the records whose text gives a field or a creditor
RECURSIVE Parsed(_)
Parsed(rs) ==
    IF rs = <<>> THEN <<>>
    ELSE (IF Opaque(Head(rs)["Conteudo"].v) THEN <<>> ELSE <<Head(rs)>>)
            \o Parsed(Tail(rs))

\* C22 (as claimed): of a text cut in more than one block, a block in
\* which no field pattern matches and no creditor is found is exported as
\* no record: the exported records are as many as the blocks that gave a
\* field or a creditor.
C22_OpaqueBlocksDropped ==
    (SplitTextReturned /\ SearchReturned /\ jsonFile.kind = "array") =>
        /\ Len(LoadedRecords) = Len(Parsed(results))
        /\ \A k \in DOMAIN LoadedRecords : "Conteudo" \notin DOMAIN LoadedRecords[k]

\* no write of an output file has failed
NoWriteFailed == \A i \in DOMAIN writes : writes[i].outcome = "ok"

RECURSIVE Distinct(_)
Distinct(l) ==
    IF l = <<>> THEN <<>>
    ELSE LET front == Distinct(SubSeq(l, 1, Len(l) - 1)) IN
         IF Has(front, l[Len(l)]) THEN front ELSE Append(front, l[Len(l)])

\* C24 (as claimed): the Credores list exported for a text holds every
\* creditor of the text once, in the order of first occurrence, also when
\* a "Credor:" line occurs several times with the same value.
C24_CreditorsDeduplicated ==
    (SearchReturned /\ jsonFile.kind = "array") =>
        \A k \in DOMAIN LoadedRecords :
            "Credores" \in DOMAIN LoadedRecords[k] =>
                LoadedRecords[k]["Credores"].v = Distinct(LoadedRecords[k]["Credores"].v)

\* the step leaves the list what it was and writes its lists as arrays
ListsKept ==
    /\ results' = results
    /\ jsonFile'.kind = "array" =>
          \A k \in DOMAIN results :
              \A f \in DOMAIN results[k] \cap {"Links", "Credores", "NIFs_Credores"} :
                  /\ results[k][f].t = "list"
                  /\ f \in DOMAIN jsonFile'.items[k] =>
                         jsonFile'.items[k][f] = [j |-> "array", v |-> results[k][f].v]

\* C25: neither serializer changes the list it is given or a record of it:
\* across the CSV step and the JSON step of save_results the list stays
\* what it was, lists included, and the lists that the CSV rows hold
\* joined are written to the JSON file as arrays.
C25_RecordsUnchanged ==
    [][(pc = "save_csv" \/ pc = "save_json") => ListsKept]_vars

C25_Witness ==
    /\ pc = "done"
    /\ csvFile.kind = "table"
    /\ jsonFile.kind = "array"
    /\ \E k \in DOMAIN results :
         /\ "Links" \in DOMAIN results[k]
         /\ "Conteudo" \notin DOMAIN results[k]
         /\ results[k]["Links"] = LstV(<< <<"http://doc">> >>)
         /\ csvFile.rows[k][Len(csvFile.header)] = <<"http://doc">>

\* C26: once the page text strategy has been entered there is a record by
\* the time the placeholders are considered (blocks, the whole text, or the
\* record of the failed read), and extract_results returns at least one
\* record; the generic records are never made, in any run.
C26_PlaceholderNeverMade ==
    /\ ~Has(invoked, "placeholder")
    /\ Has(invoked, "text") =>
          /\ pc = "placeholder" => results # <<>>
          /\ ExtractReturned => results # <<>>

C26_Witness ==
    /\ pc = "done"
    /\ invoked = <<"table", "list", "text">>
    /\ results = <<TextErrorRecord>>
    /\ total_docs = 2

\* C27: when no count is found on the page the total stays 0 and the
\* strategies are still tried: the table, then, with no record, the list;
\* a container text that is cut in blocks gives no record, the page text
\* and the placeholders are not entered, and with nothing from the table
\* and the list extract_results returns the empty list.
C27_NoCountNoFallback ==
    reported = "none" =>
        /\ total_docs = 0
        /\ ~Has(invoked, "text") /\ ~Has(invoked, "placeholder") /\ ~debugFile
        /\ ExtractReturned =>
              /\ Has(invoked, "table")
              /\ results = <<>> => Has(invoked, "list")
              /\ (invoked[Len(invoked)] = "container_text" /\ Len(ReSplit(blob)) > 1)
                    => results = <<>>

C27_Witness ==
    /\ pc = "done"
    /\ reported = "none"
    /\ invoked = <<"table", "list", "container_text">>
    /\ Len(ReSplit(blob)) = 3
    /\ results = <<>>
    /\ csvFile = NoResultsCsv

\* what the outer handler leaves: the records collected, or with none and
\* a total N above 0 the one record that carries Total_Documentos = N
HandlerReturns ==
    /\ pc' = "save_csv"
    /\ results # <<>> => results' = results
    /\ (results = <<>> /\ total_docs = 0) => results' = <<>>
    /\ (results = <<>> /\ total_docs > 0) =>
          /\ Len(results') = 1
          /\ {"Erro", "Total_Documentos"} \subseteq DOMAIN results'[1]
          /\ results'[1]["Total_Documentos"] = IntV(total_docs)

\* C28: extract_results never raises to search: a fault that escapes the
\* strategies is taken by the outer handler, which returns the records
\* collected so far, or, with none and a total N greater than 0, exactly
\* one error record with Total_Documentos = N, or, with a total of 0, the
\* empty list.
C28_FaultsReturnAList ==
    [][ /\ Has(stages, "extract") => pc' # "main_except"
        /\ pc = "extract_except" => HandlerReturns ]_vars

C28_Witness ==
    /\ pc = "done"
    /\ total_docs = 2
    /\ invoked = <<"table", "list", "text">>
    /\ results = <<OuterErrorRecord(2)>>
    /\ jsonFile.kind = "array"

\* the orders in which search can have gone through its stages
StageOrders ==
    { <<>>,
      <<"open">>, <<"open", "save">>,
      <<"open", "fill">>, <<"open", "fill", "save">>,
      <<"open", "fill", "submit">>, <<"open", "fill", "submit", "save">>,
      <<"open", "fill", "submit", "extract">>,
      <<"open", "fill", "submit", "extract", "save">> }

\* search has saved without having extracted: a stage reported failure
StageFailed == Has(stages, "save") /\ ~Has(stages, "extract")

\* C29: search goes through open page, fill form, submit, extract, save in
\* that order; after a stage that reports failure no later stage and no
\* extraction runs, the list saved and returned is empty and each file
\* written is the "no results" one; the extraction runs only after the
\* three stages before it, and an accepted search saves exactly once.
C29_StagesInOrder ==
    /\ stages \in StageOrders
    /\ (pc \in {"save_json", "search_ret"} /\ ~Rejected(nif, designacao))
          => stages[Len(stages)] = "save"
    /\ StageFailed =>
          /\ invoked = <<>> /\ results = <<>>
          /\ csvFile \in {NoResultsCsv, NoFile} \/ csvFile.kind = "simplified"
          /\ pc \in {"search_ret", "done"} =>
                jsonFile \in {NoResultsJson, NoFile} \/ jsonFile.kind = "simplified"
          /\ \A k \in DOMAIN writes :
                (writes[k].form = "complete" /\ writes[k].outcome = "ok") =>
                /\ writes[k].file = "csv" => csvFile = NoResultsCsv
                /\ writes[k].file = "json" => jsonFile = NoResultsJson

C29_Witness ==
    /\ pc = "done"
    /\ stages = <<"open", "fill", "save">>
    /\ results = <<>>
    /\ csvFile = NoResultsCsv
    /\ jsonFile = NoResultsJson
    /\ exitCode = 0

\* the text in front of the first label of the text
Header == ReSplit(blob)[1]

\* the words of the text that stand only in front of its first label
HeaderOnly ==
    {Header[i] : i \in DOMAIN Header} \
        ({SP, NL} \cup UNION {{KeptBlocks[k][i] : i \in DOMAIN KeptBlocks[k]} :
                                  k \in DOMAIN KeptBlocks})

\* C30: of a text in which a label matches, what stands in front of the
\* first label is in no record: there are no more records than labels
\* matched, record k is made of the text after label k and of the label
\* put back, and no word that stands only in front of the first label is
\* in any record.
C30_HeaderDiscarded ==
    SplitTextReturned =>
        /\ Len(results) <= Len(KeptBlocks)
        /\ \A k \in DOMAIN results :
              LET content == results[k]["Conteudo"].v IN
              /\ \A i \in DOMAIN content :
                    \/ content[i] \in {SP, NL, "Tribunal:", "Insolvente:", "Credor:",
                                       "Administrador", "Processo:", ":"}
                    \/ \E j \in DOMAIN KeptBlocks[k] : KeptBlocks[k][j] = content[i]
              /\ \A i \in DOMAIN content : content[i] \notin HeaderOnly

C30_Witness ==
    /\ SplitTextReturned
    /\ blob = <<"A", NL, "Credor:", SP, "B", NL>>
    /\ HeaderOnly = {"A"}
    /\ invoked[Len(invoked)] = "text"
    /\ results = <<Rec1("Conteudo", StrV(<<"Tribunal:", SP, SP, "B">>))>>

====
